---- MODULE Spec2Model ----
(***************************************************************************)
(* regress/sys/net/pf_opts/icmp6.py: a script that sends one ICMPv6 packet *)
(* of type 6 to the address ADDR6_N on the interface IF_N, with the bpf    *)
(* loopback header put in front of it by hand.                             *)
(*                                                                         *)
(* A run of the script is a process r; Runs holds two of them, started on  *)
(* the same addr module, so that what two runs send can be compared.  Each *)
(* statement of the script is one action.  The script's global variables   *)
(* are the dictionary globals[r], as eval() reads them.                    *)
(***************************************************************************)
EXTENDS Integers, Sequences, FiniteSets, TLC

VARIABLES
    namespace,    \* the names "from addr import *" binds, with their values
    argv,         \* argv[r]: sys.argv of run r, the program name first
    pc,           \* pc[r]: the statement run r executes next
    stdout,       \* stdout[r]: the lines run r has printed
    globals,      \* globals[r]: the global variables of run r
    status,       \* status[r]: <<>> while r runs, <<s>> once it exited with s
    uncaught,     \* uncaught[r]: the exception that ended r, "" if none
    sendp_calls,  \* sendp_calls[r]: the calls of sendp, as [x, iface]
    transmitted   \* transmitted[r]: the frames put on an interface by r

vars == <<namespace, argv, pc, stdout, globals, status, uncaught,
          sendp_calls, transmitted>>

(***************************************************************************)
(* Bounds of the model.                                                    *)
(***************************************************************************)
MaxArgs == 2      \* at most this many command-line arguments
MaxPidWrap == 1   \* process identifiers reach MaxPidWrap * 2^16

Runs == {1, 2}

Keys == {"1", "2"}

ArgvSet ==
    {<<"icmp6.py">> \o a : a \in UNION {[1..n -> Keys] : n \in 0..MaxArgs}}

Pids == {1, 65535} \cup {w * 65536 : w \in 1..MaxPidWrap}

(***************************************************************************)
(* The addr module: the test's interfaces and addresses.  An address is    *)
(* written as its eight 16-bit groups: fe80::1 and                         *)
(* fdd7:e83e:66bc:ffff::2.                                                 *)
(***************************************************************************)
IF_VALUE == [k \in Keys |-> IF k = "1" THEN "lo0" ELSE "lo1"]

ADDR6_VALUE ==
    [k \in Keys |-> IF k = "1" THEN <<65152, 0, 0, 0, 0, 0, 0, 1>>
                    ELSE <<64983, 59454, 26300, 65535, 0, 0, 0, 2>>]

AddrModule(ifKeys, addrKeys) ==
    [n \in {"IF_" \o k : k \in ifKeys} \cup {"ADDR6_" \o k : k \in addrKeys} |->
        LET k == CHOOSE j \in Keys : n \in {"IF_" \o j, "ADDR6_" \o j}
        IN  IF n = "IF_" \o k THEN IF_VALUE[k] ELSE ADDR6_VALUE[k]]

Namespaces == {AddrModule(i, a) : i \in SUBSET Keys, a \in SUBSET Keys}

(***************************************************************************)
(* Python and scapy primitives the script calls.                           *)
(***************************************************************************)
RECURSIVE BitAnd(_, _)
BitAnd(a, b) ==
    IF a = 0 \/ b = 0 THEN 0
    ELSE (a % 2) * (b % 2) + 2 * BitAnd(a \div 2, b \div 2)

\* pack with the byte order reversed, as '<I' would give
pack_LittleEndian(fmt, v) ==
    IF fmt = "!I"
    THEN <<v % 256, (v \div 256) % 256, (v \div 65536) % 256, (v \div 16777216) % 256>>
    ELSE <<>>

\* struct.pack('!I', v): v as four bytes, most significant first
pack(fmt, v) ==
    IF fmt = "!I"
    THEN <<(v \div 16777216) % 256, (v \div 65536) % 256, (v \div 256) % 256, v % 256>>
    ELSE <<>>

\* The 16 bytes of an address, each group most significant byte first
inet_pton(addr) ==
    [i \in 1..16 |-> IF i % 2 = 1 THEN addr[(i + 1) \div 2] \div 256
                     ELSE addr[i \div 2] % 256]

\* The sum of the 16-bit words of b, an odd last byte padded with a zero
SumWords[b \in Seq(0..255)] ==
    IF Len(b) = 0 THEN 0
    ELSE IF Len(b) = 1 THEN b[1] * 256
    ELSE b[1] * 256 + b[2] + SumWords[SubSeq(b, 3, Len(b))]

\* The Internet checksum: the complement of the folded sum of 16-bit words
checksum(b) ==
    LET s0 == SumWords[b]
        s1 == (s0 \div 65536) + (s0 % 65536)
        s2 == s1 + (s1 \div 65536)
    IN  65535 - (s2 % 65536)

\* The checksum of an upper-layer message under the IPv6 pseudo-header
in6_chksum(nh, src, dst, upper) ==
    checksum(inet_pton(src) \o inet_pton(dst) \o pack("!I", Len(upper))
             \o <<0, 0, 0, nh>> \o upper)

ICMPv6Unknown(type, code, msgbody) ==
    [type |-> type, code |-> code, msgbody |-> msgbody]

\* IPv6(src, dst) / icmp: next header 58 comes from the ICMPv6 layer below it
IPv6(src, dst, icmp) ==
    [version |-> 6, tc |-> 0, fl |-> 0, nh |-> 58, hlim |-> 64,
     src |-> src, dst |-> dst, icmp |-> icmp]

\* bytes(packet): the 40-byte IPv6 header and the ICMPv6 message, the payload
\* length and the checksum filled in
bytes(p) ==
    LET m      == p.icmp
        blank  == <<m.type, m.code, 0, 0>> \o m.msgbody
        cksum  == in6_chksum(p.nh, p.src, p.dst, blank)
        upper  == <<m.type, m.code, cksum \div 256, cksum % 256>> \o m.msgbody
        plen   == Len(upper)
    IN  <<p.version * 16 + p.tc \div 16,
          (p.tc % 16) * 16 + p.fl \div 65536,
          (p.fl \div 256) % 256,
          p.fl % 256,
          plen \div 256, plen % 256, p.nh, p.hlim>>
        \o inet_pton(p.src) \o inet_pton(p.dst) \o upper

\* A dictionary with one more name bound
Bind(d, name, value) == (name :> value) @@ d

EmptyDict == [n \in {} |-> ""]

(***************************************************************************)
(* The state after the interpreter has started a run.                      *)
(***************************************************************************)
Init ==
    /\ namespace \in Namespaces
    /\ argv \in [Runs -> ArgvSet]
    /\ pc = [r \in Runs |-> "announce"]
    /\ stdout = [r \in Runs |-> <<>>]
    /\ globals = [r \in Runs |-> EmptyDict]
    /\ status = [r \in Runs |-> <<>>]
    /\ uncaught = [r \in Runs |-> ""]
    /\ sendp_calls = [r \in Runs |-> <<>>]
    /\ transmitted = [r \in Runs |-> <<>>]

\* An uncaught exception ends the run: traceback, exit status 1
Raise(r, exc) ==
    /\ uncaught' = [uncaught EXCEPT ![r] = exc]
    /\ status' = [status EXCEPT ![r] = <<1>>]
    /\ pc' = [pc EXCEPT ![r] = "exited"]

\* The name built from a fixed key instead of the argument
SymbolName_First(prefix, n) == prefix \o "1"

\* The name eval() is given: a prefix and the argument, concatenated
SymbolName(prefix, n) == prefix \o n

\* eval() of a name: the value the name is bound to
eval(g, name) == g[name]

\* The argument check written as len(sys.argv) < 2
BadArgc_Less(a) == Len(a) < 2

\* len(sys.argv) != 2
BadArgc(a) == Len(a) # 2

\* The run started without the announcement
Announce_Silent(r) ==
    /\ pc[r] = "announce"
    /\ pc' = [pc EXCEPT ![r] = "import"]
    /\ UNCHANGED <<namespace, argv, stdout, globals, status, uncaught,
                   sendp_calls, transmitted>>

\* line 3: print("send icmp6 without options")
Announce(r) ==
    /\ pc[r] = "announce"
    /\ stdout' = [stdout EXCEPT ![r] = Append(@, "send icmp6 without options")]
    /\ pc' = [pc EXCEPT ![r] = "import"]
    /\ UNCHANGED <<namespace, argv, globals, status, uncaught, sendp_calls,
                   transmitted>>

\* lines 5-9: the imports; "from addr import *" binds the names of addr
Import(r) ==
    /\ pc[r] = "import"
    /\ globals' = [globals EXCEPT ![r] = namespace]
    /\ pc' = [pc EXCEPT ![r] = "argcheck"]
    /\ UNCHANGED <<namespace, argv, stdout, status, uncaught, sendp_calls,
                   transmitted>>

\* line 11: if len(sys.argv) != 2:
ArgCheck(r) ==
    /\ pc[r] = "argcheck"
    /\ pc' = [pc EXCEPT ![r] = IF BadArgc(argv[r]) THEN "usage" ELSE "N"]
    /\ UNCHANGED <<namespace, argv, stdout, globals, status, uncaught,
                   sendp_calls, transmitted>>

\* The usage line printed without the exit after it: the script goes on
Usage_NoExit(r) ==
    /\ pc[r] = "usage"
    /\ stdout' = [stdout EXCEPT ![r] = Append(@, "usage: icmp6.py Nn")]
    /\ pc' = [pc EXCEPT ![r] = "N"]
    /\ UNCHANGED <<namespace, argv, globals, status, uncaught, sendp_calls,
                   transmitted>>

\* line 12: print("usage: icmp6.py Nn")
Usage(r) ==
    /\ pc[r] = "usage"
    /\ stdout' = [stdout EXCEPT ![r] = Append(@, "usage: icmp6.py Nn")]
    /\ pc' = [pc EXCEPT ![r] = "exit"]
    /\ UNCHANGED <<namespace, argv, globals, status, uncaught, sendp_calls,
                   transmitted>>

\* line 13: exit(2)
Exit(r) ==
    /\ pc[r] = "exit"
    /\ status' = [status EXCEPT ![r] = <<2>>]
    /\ pc' = [pc EXCEPT ![r] = "exited"]
    /\ UNCHANGED <<namespace, argv, stdout, globals, uncaught, sendp_calls,
                   transmitted>>

\* line 15: N=sys.argv[1]
AssignN(r) ==
    /\ pc[r] = "N"
    /\ IF Len(argv[r]) >= 2
       THEN /\ globals' = [globals EXCEPT ![r] = Bind(@, "N", argv[r][2])]
            /\ pc' = [pc EXCEPT ![r] = "IF"]
            /\ UNCHANGED <<status, uncaught>>
       ELSE /\ Raise(r, "IndexError")
            /\ UNCHANGED globals
    /\ UNCHANGED <<namespace, argv, stdout, sendp_calls, transmitted>>

\* line 16: IF=eval("IF_"+N)
LookupIF(r) ==
    /\ pc[r] = "IF"
    /\ LET name == SymbolName("IF_", globals[r]["N"])
       IN  IF name \in DOMAIN globals[r]
           THEN /\ globals' = [globals EXCEPT ![r] = Bind(@, "IF", eval(@, name))]
                /\ pc' = [pc EXCEPT ![r] = "ADDR6"]
                /\ UNCHANGED <<status, uncaught>>
           ELSE /\ Raise(r, "NameError")
                /\ UNCHANGED globals
    /\ UNCHANGED <<namespace, argv, stdout, sendp_calls, transmitted>>

\* The lookup with a default, the unspecified address ::, for a missing name
LookupADDR6_Default(r) ==
    /\ pc[r] = "ADDR6"
    /\ LET name == "ADDR6_" \o globals[r]["N"]
           value == IF name \in DOMAIN globals[r] THEN globals[r][name]
                    ELSE <<0, 0, 0, 0, 0, 0, 0, 0>>
       IN  globals' = [globals EXCEPT ![r] = ("ADDR6" :> value) @@ @]
    /\ pc' = [pc EXCEPT ![r] = "pid"]
    /\ UNCHANGED <<namespace, argv, stdout, status, uncaught, sendp_calls,
                   transmitted>>

\* line 17: ADDR6=eval("ADDR6_"+N)
LookupADDR6(r) ==
    /\ pc[r] = "ADDR6"
    /\ LET name == SymbolName("ADDR6_", globals[r]["N"])
       IN  IF name \in DOMAIN globals[r]
           THEN /\ globals' = [globals EXCEPT ![r] = Bind(@, "ADDR6", eval(@, name))]
                /\ pc' = [pc EXCEPT ![r] = "pid"]
                /\ UNCHANGED <<status, uncaught>>
           ELSE /\ Raise(r, "NameError")
                /\ UNCHANGED globals
    /\ UNCHANGED <<namespace, argv, stdout, sendp_calls, transmitted>>

\* line 19: pid=os.getpid()
GetPid(r) ==
    /\ pc[r] = "pid"
    /\ \E p \in Pids : globals' = [globals EXCEPT ![r] = Bind(@, "pid", p)]
    /\ pc' = [pc EXCEPT ![r] = "eid"]
    /\ UNCHANGED <<namespace, argv, stdout, status, uncaught, sendp_calls,
                   transmitted>>

\* The identifier taken without the mask
Eid_NoMask(r) ==
    /\ pc[r] = "eid"
    /\ globals' = [globals EXCEPT ![r] = ("eid" :> @["pid"]) @@ @]
    /\ pc' = [pc EXCEPT ![r] = "payload"]
    /\ UNCHANGED <<namespace, argv, stdout, status, uncaught, sendp_calls,
                   transmitted>>

\* line 20: eid=pid & 0xffff
Eid(r) ==
    /\ pc[r] = "eid"
    /\ globals' = [globals EXCEPT ![r] = Bind(@, "eid", BitAnd(@["pid"], 65535))]
    /\ pc' = [pc EXCEPT ![r] = "payload"]
    /\ UNCHANGED <<namespace, argv, stdout, status, uncaught, sendp_calls,
                   transmitted>>

\* line 21: payload=b"ABCDEFGHIJKLMNOP"
Payload(r) ==
    /\ pc[r] = "payload"
    /\ globals' = [globals EXCEPT ![r] = Bind(@, "payload", [i \in 1..16 |-> 64 + i])]
    /\ pc' = [pc EXCEPT ![r] = "packet"]
    /\ UNCHANGED <<namespace, argv, stdout, status, uncaught, sendp_calls,
                   transmitted>>

\* The packet of an echo test: eid put in front of the payload as the identifier
Packet_Echo(r) ==
    /\ pc[r] = "packet"
    /\ LET g  == globals[r]
           id == <<g["eid"] \div 256, g["eid"] % 256>>
           p  == [version |-> 6, tc |-> 0, fl |-> 0, nh |-> 58, hlim |-> 64,
                  src |-> g["ADDR6"], dst |-> g["ADDR6"],
                  icmp |-> [type |-> 6, code |-> 0, msgbody |-> id \o g["payload"]]]
       IN  globals' = [globals EXCEPT ![r] = ("packet" :> p) @@ @]
    /\ pc' = [pc EXCEPT ![r] = "bpf"]
    /\ UNCHANGED <<namespace, argv, stdout, status, uncaught, sendp_calls,
                   transmitted>>

\* lines 22-23: packet=IPv6(src=ADDR6, dst=ADDR6)/ICMPv6Unknown(type=6, code=0, msgbody=payload)
Packet(r) ==
    /\ pc[r] = "packet"
    /\ globals' = [globals EXCEPT ![r] =
           Bind(@, "packet", IPv6(@["ADDR6"], @["ADDR6"],
                                  ICMPv6Unknown(6, 0, @["payload"])))]
    /\ pc' = [pc EXCEPT ![r] = "bpf"]
    /\ UNCHANGED <<namespace, argv, stdout, status, uncaught, sendp_calls,
                   transmitted>>

\* line 27: bpf=pack('!I', 24) + bytes(packet)
Bpf(r) ==
    /\ pc[r] = "bpf"
    /\ globals' = [globals EXCEPT ![r] =
           Bind(@, "bpf", pack("!I", 24) \o bytes(@["packet"]))]
    /\ pc' = [pc EXCEPT ![r] = "sendp"]
    /\ UNCHANGED <<namespace, argv, stdout, status, uncaught, sendp_calls,
                   transmitted>>

\* The send tried a second time when the first raised
Sendp_Retry(r) ==
    /\ pc[r] = "sendp"
    /\ LET call == [x |-> globals[r]["bpf"], iface |-> globals[r]["IF"]]
       IN  /\ sendp_calls' = [sendp_calls EXCEPT ![r] = Append(@, call)]
           /\ \E ok \in BOOLEAN :
                IF ok
                THEN /\ transmitted' = [transmitted EXCEPT ![r] =
                            Append(@, [iface |-> call.iface, frame |-> call.x])]
                     /\ pc' = [pc EXCEPT ![r] = "eof"]
                     /\ UNCHANGED <<status, uncaught>>
                ELSE IF Len(sendp_calls[r]) = 0
                THEN UNCHANGED <<transmitted, pc, status, uncaught>>
                ELSE /\ uncaught' = [uncaught EXCEPT ![r] = "OSError"]
                     /\ status' = [status EXCEPT ![r] = <<1>>]
                     /\ pc' = [pc EXCEPT ![r] = "exited"]
                     /\ UNCHANGED transmitted
    /\ UNCHANGED <<namespace, argv, stdout, globals>>

\* The send inside a try/except that drops the error
Sendp_Swallow(r) ==
    /\ pc[r] = "sendp"
    /\ LET call == [x |-> globals[r]["bpf"], iface |-> globals[r]["IF"]]
       IN  /\ sendp_calls' = [sendp_calls EXCEPT ![r] = Append(@, call)]
           /\ \E ok \in BOOLEAN :
                transmitted' = [transmitted EXCEPT ![r] =
                    IF ok THEN Append(@, [iface |-> call.iface, frame |-> call.x])
                    ELSE @]
    /\ pc' = [pc EXCEPT ![r] = "eof"]
    /\ UNCHANGED <<namespace, argv, stdout, globals, status, uncaught>>

\* line 28: sendp(bpf, iface=IF).  The call either puts the frame on the
\* interface and returns, or raises (no such interface, no permission).
Sendp(r) ==
    /\ pc[r] = "sendp"
    /\ LET call == [x |-> globals[r]["bpf"], iface |-> globals[r]["IF"]]
       IN  /\ sendp_calls' = [sendp_calls EXCEPT ![r] = Append(@, call)]
           /\ \E ok \in BOOLEAN :
                IF ok
                THEN /\ transmitted' = [transmitted EXCEPT ![r] =
                            Append(@, [iface |-> call.iface, frame |-> call.x])]
                     /\ pc' = [pc EXCEPT ![r] = "eof"]
                     /\ UNCHANGED <<status, uncaught>>
                ELSE /\ Raise(r, "OSError")
                     /\ UNCHANGED transmitted
    /\ UNCHANGED <<namespace, argv, stdout, globals>>

\* the end of the script: the interpreter exits with status 0
Eof(r) ==
    /\ pc[r] = "eof"
    /\ status' = [status EXCEPT ![r] = <<0>>]
    /\ pc' = [pc EXCEPT ![r] = "exited"]
    /\ UNCHANGED <<namespace, argv, stdout, globals, uncaught, sendp_calls,
                   transmitted>>

Step(r) ==
    \/ Announce(r)
    \/ Import(r)
    \/ ArgCheck(r)
    \/ Usage(r)
    \/ Exit(r)
    \/ AssignN(r)
    \/ LookupIF(r)
    \/ LookupADDR6(r)
    \/ GetPid(r)
    \/ Eid(r)
    \/ Payload(r)
    \/ Packet(r)
    \/ Bpf(r)
    \/ Sendp(r)
    \/ Eof(r)

Next == \E r \in Runs : Step(r)

Spec == Init /\ [][Next]_vars

\* A running process is scheduled until it exits
FairSpec == Spec /\ \A r \in Runs : WF_vars(Step(r))

(***************************************************************************)
(* Vocabulary of the properties.                                           *)
(***************************************************************************)
Announcement == "send icmp6 without options"

UsageLine == "usage: icmp6.py Nn"

\* The number of command-line arguments, the program name not counted
Argc(r) == Len(argv[r]) - 1

Exited(r) == pc[r] = "exited"

Bound(r, name) == name \in DOMAIN globals[r]

\* IF_N and ADDR6_N are both names of the addr module, N the argument of r
Configured(r) ==
    /\ ("IF_" \o argv[r][2]) \in DOMAIN namespace
    /\ ("ADDR6_" \o argv[r][2]) \in DOMAIN namespace

\* The statements after the argument check, on the path of a valid call
AfterCheck == {"N", "IF", "ADDR6", "pid", "eid", "payload", "packet", "bpf",
               "sendp", "eof"}

\* The statements after the two lookups
AfterLookups == {"pid", "eid", "payload", "packet", "bpf", "sendp", "eof"}

\* The eight groups of an address read back from its 16 bytes
Groups(b) == [i \in 1..8 |-> b[2 * i - 1] * 256 + b[2 * i]]

RECURSIVE OnesSum(_)
OnesSum(b) ==
    IF Len(b) = 0 THEN 0
    ELSE LET s == b[1] * 256 + b[2] + OnesSum(SubSeq(b, 3, Len(b)))
         IN  (s % 65536) + (s \div 65536)

\* The frame f read as it is on the wire: the 4-byte prefix 00 00 00 18,
\* then an IPv6 header from and to addr with next header ICMPv6, then an
\* ICMPv6 message of type 6, code 0, a valid checksum and the 16-byte body
\* ABCDEFGHIJKLMNOP, and nothing else.
FrameAsSpecified(f, addr) ==
    /\ Len(f) = 4 + 40 + 4 + 16
    /\ SubSeq(f, 1, 4) = <<0, 0, 0, 24>>
    /\ f[5] \div 16 = 6
    /\ f[9] * 256 + f[10] = Len(f) - 44
    /\ f[11] = 58
    /\ Groups(SubSeq(f, 13, 28)) = addr
    /\ Groups(SubSeq(f, 29, 44)) = addr
    /\ f[45] = 6
    /\ f[46] = 0
    /\ SubSeq(f, 49, 64) = <<65, 66, 67, 68, 69, 70, 71, 72, 73, 74, 75, 76, 77, 78, 79, 80>>
    /\ OnesSum(SubSeq(f, 13, 44) \o <<0, 0, f[9], f[10], 0, 0, 0, f[11]>>
               \o SubSeq(f, 45, 64)) = 65535

(***************************************************************************)
(* C1: a run whose number of arguments is not exactly one hands no frame   *)
(* to sendp and transmits none, and it ends having printed the usage       *)
(* message, with exit status 2.                                            *)
(***************************************************************************)
C1_UsageExit ==
    \A r \in Runs :
        Argc(r) # 1 =>
            /\ sendp_calls[r] = <<>>
            /\ transmitted[r] = <<>>
            /\ pc[r] \notin AfterCheck
            /\ Exited(r) =>
                /\ status[r] = <<2>>
                /\ uncaught[r] = ""
                /\ stdout[r][Len(stdout[r])] = UsageLine

C1_Witness ==
    \E r1, r2 \in Runs :
        /\ Argc(r1) = 0 /\ Exited(r1)
        /\ Argc(r2) = 2 /\ Exited(r2)

(***************************************************************************)
(* C2: a run with one argument N, IF_N and ADDR6_N defined, whose send     *)
(* did not fail, has transmitted exactly one frame: 00 00 00 18, then the  *)
(* IPv6 packet from ADDR6_N to ADDR6_N carrying the ICMPv6 message of type *)
(* 6, code 0, body ABCDEFGHIJKLMNOP, and nothing more.                     *)
(***************************************************************************)
C2_OneFrame ==
    \A r \in Runs :
        (Argc(r) = 1 /\ Configured(r) /\ Exited(r) /\ uncaught[r] = "") =>
            /\ Len(transmitted[r]) = 1
            /\ FrameAsSpecified(transmitted[r][1].frame,
                                namespace["ADDR6_" \o argv[r][2]])

C2_Witness ==
    \E r1, r2 \in Runs :
        /\ argv[r1] = <<"icmp6.py", "1">> /\ Exited(r1) /\ status[r1] = <<0>>
        /\ argv[r2] = <<"icmp6.py", "2">> /\ Exited(r2) /\ status[r2] = <<0>>
        /\ Len(transmitted[r1]) = 1 /\ Len(transmitted[r2]) = 1

(***************************************************************************)
(* C3: a run with one argument N for which IF_N or ADDR6_N is not defined  *)
(* never gets past the lookups: it builds no packet, never calls sendp,    *)
(* transmits nothing, and ends on the uncaught NameError.                  *)
(***************************************************************************)
C3_UnresolvedAborts ==
    \A r \in Runs :
        (Argc(r) = 1 /\ ~Configured(r)) =>
            /\ pc[r] \notin AfterLookups
            /\ ~Bound(r, "packet") /\ ~Bound(r, "bpf")
            /\ sendp_calls[r] = <<>>
            /\ transmitted[r] = <<>>
            /\ Exited(r) => (uncaught[r] = "NameError" /\ status[r] = <<1>>)

C3_Witness ==
    \E r1, r2 \in Runs :
        /\ Argc(r1) = 1 /\ Exited(r1) /\ Bound(r1, "IF") /\ ~Bound(r1, "ADDR6")
        /\ ("ADDR6_" \o argv[r1][2]) \notin DOMAIN namespace
        /\ Argc(r2) = 1 /\ Exited(r2) /\ ~Bound(r2, "IF")
        /\ ("ADDR6_" \o argv[r2][2]) \in DOMAIN namespace

(***************************************************************************)
(* C4: a run calls sendp at most once and transmits at most one frame; a   *)
(* frame it transmitted is the whole of bpf; a run that ended has either   *)
(* transmitted one frame and exited with 0, or transmitted none and exited *)
(* with another status.                                                    *)
(***************************************************************************)
C4_AtMostOnce ==
    \A r \in Runs :
        /\ Len(sendp_calls[r]) <= 1
        /\ Len(transmitted[r]) <= 1
        /\ Len(transmitted[r]) <= Len(sendp_calls[r])
        /\ transmitted[r] # <<>> => transmitted[r][1].frame = globals[r]["bpf"]
        /\ Exited(r) =>
            \/ Len(transmitted[r]) = 1 /\ status[r] = <<0>>
            \/ Len(transmitted[r]) = 0 /\ status[r] # <<0>>

C4_Witness ==
    \E r1, r2 \in Runs :
        /\ Exited(r1) /\ Len(sendp_calls[r1]) = 1 /\ Len(transmitted[r1]) = 1
        /\ Exited(r2) /\ Len(sendp_calls[r2]) = 1 /\ transmitted[r2] = <<>>
        /\ uncaught[r2] = "OSError"

(***************************************************************************)
(* C5: two runs with the same argument, on the same addr module, that      *)
(* both transmitted, transmitted the same bytes on the same interface,     *)
(* whatever their process identifiers.                                     *)
(***************************************************************************)
C5_SameFrame ==
    \A r1, r2 \in Runs :
        (/\ argv[r1] = argv[r2]
         /\ transmitted[r1] # <<>>
         /\ transmitted[r2] # <<>>) =>
            transmitted[r1] = transmitted[r2]

C5_Witness ==
    \E r1, r2 \in Runs :
        /\ r1 # r2
        /\ argv[r1] = argv[r2]
        /\ transmitted[r1] # <<>> /\ transmitted[r2] # <<>>
        /\ globals[r1]["pid"] # globals[r2]["pid"]
        /\ globals[r1]["eid"] # globals[r2]["eid"]

(***************************************************************************)
(* C6: a run that ended with a wrong number of arguments has status 2; a   *)
(* run that ended with exactly one argument has status 0 exactly when it   *)
(* transmitted one frame, that is when sendp was called and did not raise; *)
(* a failed lookup and a failed send both give a status other than 0.      *)
(***************************************************************************)
C6_ExitStatus ==
    \A r \in Runs :
        Exited(r) =>
            /\ Len(status[r]) = 1
            /\ Argc(r) # 1 => status[r] = <<2>>
            /\ Argc(r) = 1 =>
                /\ status[r] = <<0>> <=> Len(transmitted[r]) = 1
                /\ status[r] = <<0>> <=> (sendp_calls[r] # <<>> /\ uncaught[r] = "")
                /\ uncaught[r] # "" => status[r] \notin {<<0>>, <<2>>}

C6_Witness ==
    \E r1, r2 \in Runs :
        /\ Argc(r1) = 1 /\ Exited(r1) /\ status[r1] = <<0>>
        /\ Argc(r2) = 1 /\ Exited(r2) /\ uncaught[r2] = "OSError"

(***************************************************************************)
(* C7: every call of sendp by a run with argument N names the interface    *)
(* IF_N and carries a packet from and to ADDR6_N, and every frame the run  *)
(* transmitted went out on IF_N.                                           *)
(***************************************************************************)
C7_SameKey ==
    \A r \in Runs :
        (sendp_calls[r] # <<>> \/ transmitted[r] # <<>>) =>
            /\ Argc(r) = 1
            /\ Configured(r)
            /\ \A i \in 1..Len(sendp_calls[r]) :
                /\ sendp_calls[r][i].iface = namespace["IF_" \o argv[r][2]]
                /\ Groups(SubSeq(sendp_calls[r][i].x, 13, 28))
                       = namespace["ADDR6_" \o argv[r][2]]
                /\ Groups(SubSeq(sendp_calls[r][i].x, 29, 44))
                       = namespace["ADDR6_" \o argv[r][2]]
            /\ \A i \in 1..Len(transmitted[r]) :
                /\ transmitted[r][i].iface = namespace["IF_" \o argv[r][2]]
                /\ Groups(SubSeq(transmitted[r][i].frame, 13, 28))
                       = namespace["ADDR6_" \o argv[r][2]]
                /\ Groups(SubSeq(transmitted[r][i].frame, 29, 44))
                       = namespace["ADDR6_" \o argv[r][2]]

C7_Witness ==
    \E r1, r2 \in Runs :
        /\ transmitted[r1] # <<>> /\ transmitted[r2] # <<>>
        /\ argv[r1][2] # argv[r2][2]
        /\ transmitted[r1][1].iface # transmitted[r2][1].iface
        /\ transmitted[r1][1].frame # transmitted[r2][1].frame

(***************************************************************************)
(* C8: the announcement is the first line a run prints, and it is printed  *)
(* before the argument check, the lookups and the send; a run with a wrong *)
(* number of arguments ends with the output announcement, usage line and   *)
(* status 2; a run with one argument never prints the usage line.          *)
(***************************************************************************)
C8_AnnouncementFirst ==
    \A r \in Runs :
        /\ pc[r] = "announce" => (stdout[r] = <<>> /\ globals[r] = EmptyDict)
        /\ pc[r] # "announce" => (stdout[r] # <<>> /\ stdout[r][1] = Announcement)
        /\ (Argc(r) # 1 /\ Exited(r)) =>
               (stdout[r] = <<Announcement, UsageLine>> /\ status[r] = <<2>>)
        /\ Argc(r) = 1 =>
               \A i \in 1..Len(stdout[r]) : stdout[r][i] # UsageLine
        /\ (Argc(r) = 1 /\ pc[r] # "announce") => stdout[r] = <<Announcement>>

C8_Witness ==
    \E r1, r2 \in Runs :
        /\ Argc(r1) # 1 /\ Exited(r1)
        /\ Argc(r2) = 1 /\ transmitted[r2] # <<>>

(***************************************************************************)
(* C9: eid is pid modulo 2^16, a value of 0..65535; it is bound only once  *)
(* both lookups have succeeded; and what is handed to sendp does not       *)
(* depend on it: two runs with the same argument and different eid hand    *)
(* sendp the same bytes and the same interface.                            *)
(***************************************************************************)
C9_EidMasked ==
    /\ \A r \in Runs :
        Bound(r, "eid") =>
            /\ globals[r]["eid"] = globals[r]["pid"] % 65536
            /\ globals[r]["eid"] \in 0..65535
            /\ Bound(r, "IF") /\ Bound(r, "ADDR6")
    /\ \A r1, r2 \in Runs :
        (/\ argv[r1] = argv[r2]
         /\ sendp_calls[r1] # <<>>
         /\ sendp_calls[r2] # <<>>) =>
            sendp_calls[r1] = sendp_calls[r2]

C9_Witness ==
    \E r1, r2 \in Runs :
        /\ argv[r1] = argv[r2]
        /\ sendp_calls[r1] # <<>> /\ sendp_calls[r2] # <<>>
        /\ globals[r1]["pid"] >= 65536
        /\ globals[r1]["eid"] # globals[r1]["pid"]
        /\ globals[r1]["eid"] # globals[r2]["eid"]

(***************************************************************************)
(* C10: a run goes through its statements in the one order argument check, *)
(* lookup of IF_N, lookup of ADDR6_N, packet, framing, send; with a wrong  *)
(* number of arguments it attempts no lookup; every run ends, by the usage *)
(* exit, a NameError in a lookup, an error of the send, or after the send; *)
(* and a run that ended takes no further step.                             *)
(***************************************************************************)
Order ==
    {<<"announce", "import">>, <<"import", "argcheck">>,
     <<"argcheck", "usage">>, <<"usage", "exit">>, <<"exit", "exited">>,
     <<"argcheck", "N">>, <<"N", "IF">>,
     <<"IF", "ADDR6">>, <<"IF", "exited">>,
     <<"ADDR6", "pid">>, <<"ADDR6", "exited">>,
     <<"pid", "eid">>, <<"eid", "payload">>, <<"payload", "packet">>,
     <<"packet", "bpf">>, <<"bpf", "sendp">>,
     <<"sendp", "eof">>, <<"sendp", "exited">>, <<"eof", "exited">>}

RunState(r) ==
    <<argv[r], pc[r], stdout[r], globals[r], status[r], uncaught[r],
      sendp_calls[r], transmitted[r]>>

TerminalKinds ==
    {<<2, "">>, <<1, "NameError">>, <<1, "OSError">>, <<0, "">>}

C10_OrderAndTermination ==
    /\ [][\A r \in Runs :
            /\ pc'[r] # pc[r] => <<pc[r], pc'[r]>> \in Order
            /\ Exited(r) => RunState(r)' = RunState(r)]_vars
    /\ [](\A r \in Runs :
            /\ Argc(r) # 1 => pc[r] \notin AfterCheck
            /\ Exited(r) => <<status[r][1], uncaught[r]>> \in TerminalKinds)
    /\ <>[](\A r \in Runs : Exited(r))

C10_Witness ==
    \E r1, r2 \in Runs :
        /\ Exited(r1) /\ status[r1] = <<2>>
        /\ Exited(r2) /\ status[r2] = <<0>>

====
